---- MODULE Spec2Model ----
(***************************************************************************)
(* A model of DAT's operation engine (dat/operations/execution.py) and of  *)
(* its VisTrails interface (dat/vistrails_interface.py).                   *)
(*                                                                         *)
(* Three specifications share the variables:                               *)
(*   SpecMatch  find_operation over a registry of overloaded operations    *)
(*   SpecFold   resolve_symbols / constant folding over arithmetic trees   *)
(*   Spec       the vistrail (version tree, tags, current version), with   *)
(*              perform_operation, rename and create_pipeline              *)
(***************************************************************************)
EXTENDS Integers, Sequences, FiniteSets, TLC

VARIABLES
    variable_operations, \* GlobalManager.variable_operations, in set-iteration order
    fo,                  \* the find_operation call in progress / just returned
    returned,            \* history: tied candidate set -> operation first returned for it
    rs,                  \* the last resolve_symbols call and what executing its tree built
    versions,            \* the vistrail's actions: versions[v] is version v (0 is the empty root)
    tags,                \* the vistrail's tags: tag name -> version
    current,             \* controller.current_version
    nextId,              \* the vistrail's id scope: the next module id to mint
    variables,           \* VistrailManager: variable name -> materialized Variable
    last,                \* the last top-level operation and its outcome
    objects              \* the Variable objects packages are building: object -> its fields

vars == <<variable_operations, fo, returned, rs,
          versions, tags, current, nextId, variables, last, objects>>

Range(s) == {s[k] : k \in 1..Len(s)}

(***************************************************************************)
(* The module inheritance lattice (host data).  Bases(t) is t.__bases__,   *)
(* in declaration order.  D inherits A directly and also through B, so A   *)
(* is reachable from D by two paths of different length.                   *)
(***************************************************************************)
Module == "Module"

Types == {"Module", "A", "B", "D", "Float"}

Bases(t) ==
    CASE t = "Module" -> <<"object">>
      [] t = "A"      -> <<"Module">>
      [] t = "B"      -> <<"A">>
      [] t = "D"      -> <<"A", "B">>
      [] t = "Float"  -> <<"Module">>
      [] t = "String" -> <<"Module">>
      [] OTHER        -> <<>>

Put(parents, mod, level) ==
    [x \in (DOMAIN parents) \cup {mod} |-> IF x = mod THEN level ELSE parents[x]]

RECURSIVE FillLoop(_, _, _, _, _)
\* _fill_parent_modules_map: the loop over mod.__bases__ from base k on,
\* returning the map and whether Module was hit.
FillLoop(mod, parents, level, k, top_hit) ==
    IF k > Len(Bases(mod))
    THEN [hit |-> top_hit, parents |-> parents]
    ELSE LET parent == Bases(mod)[k] IN
         IF parent = Module
         THEN [hit |-> TRUE, parents |-> Put(parents, mod, level)]
         ELSE LET r == FillLoop(parent, parents, level + 1, 1, FALSE) IN
              IF r.hit
              THEN FillLoop(mod, Put(r.parents, mod, level), level, k + 1, TRUE)
              ELSE FillLoop(mod, r.parents, level, k + 1, top_hit)

parent_modules(mod) == FillLoop(mod, <<>>, 0, 1, FALSE).parents

(***************************************************************************)
(* Operations.  An operation has a name, a list of parameters (each the    *)
(* set of types it accepts) and the usable_in_command flag.                *)
(***************************************************************************)
MaxOps == 2     \* registered operations
MaxArgs == 2    \* arguments of a find_operation call

ParamTypes == {{"Module"}, {"A"}, {"B"}, {"A", "Float"}}
SecondParamTypes == {{"A"}, {"A", "Float"}}

\* callback: the operation is implemented by a native callback (else by a subworkflow).
OperationWith(n, ps, u, rt, cb) ==
    [name |-> n, parameters |-> ps, usable_in_command |-> u, return_type |-> rt, callback |-> cb]

Operation(n, ps, u) == OperationWith(n, ps, u, "A", TRUE)

OpSpace ==
    {Operation("f", <<p>>, TRUE) : p \in ParamTypes}
    \cup {Operation("f", <<{"A"}, q>>, TRUE) : q \in SecondParamTypes}
    \cup {Operation("g", <<{"A"}>>, TRUE), Operation("f", <<{"B"}>>, FALSE),
          Operation("f", <<{"B"}, {"A"}>>, TRUE),
          OperationWith("+", <<{"Float"}, {"Float"}>>, TRUE, "Float", TRUE)}

NoOperation == Operation("", <<>>, FALSE)

\* dat.operations.builtins.builtin_operations: name -> list of operations
builtin_operations(name) ==
    IF name \in {"+", "-", "*", "/"}
    THEN <<OperationWith(name, <<{"Float"}, {"Float"}>>, TRUE, "Float", FALSE)>>
    ELSE <<>>

OpNames == {"f", "g", "+"}

RECURSIVE SeqsUpTo(_, _)
SeqsUpTo(S, n) == IF n = 0 THEN {<<>>} ELSE SeqsUpTo(S, n - 1) \cup [1..n -> S]

\* The sequences over S of length at most n without a repeated element.
InjSeqs(S, n) == {s \in SeqsUpTo(S, n) : Cardinality(Range(s)) = Len(s)}

(***************************************************************************)
(* find_operation                                                          *)
(***************************************************************************)
maxint == 2147483647

RECURSIVE ScoreLoop(_, _, _, _)
\* The two nested loops of lines 171-189 over the (operation, accepted type)
\* pairs still to visit; the retained set does not depend on the visiting order.
ScoreLoop(pairs, bases, retained_operations, current_score) ==
    IF pairs = {}
    THEN retained_operations
    ELSE LET pr == CHOOSE x \in pairs : TRUE
             op == pr[1]
             expected == pr[2]
             rest == pairs \ {pr}
         IN IF expected \notin DOMAIN bases
            THEN ScoreLoop(rest, bases, retained_operations, current_score)
            ELSE LET score == bases[expected] IN
                 IF score < current_score
                 THEN ScoreLoop(rest, bases, {op}, score)
                 ELSE IF score = current_score
                      THEN ScoreLoop(rest, bases, retained_operations \cup {op}, current_score)
                      ELSE ScoreLoop(rest, bases, retained_operations, current_score)

\* One iteration of the loop on arguments (lines 166-191): the operations retained
\* after argument i, of concrete type actual.
RetainAt(operations, i, actual) ==
    ScoreLoop({pr \in operations \X UNION {o.parameters[i] : o \in operations} :
                  pr[2] \in pr[1].parameters[i]},
              parent_modules(actual), {}, maxint)

RECURSIVE ArgLoop(_, _, _, _)
\* The loop on arguments from position i on; trace collects the retained set after
\* each processed position.  The loop breaks once no operation is left.
ArgLoop(operations, args, i, trace) ==
    IF i > Len(args) \/ (i > 1 /\ operations = {})
    THEN [operations |-> operations, trace |-> trace]
    ELSE LET kept == RetainAt(operations, i, args[i]) IN
         ArgLoop(kept, args, i + 1, Append(trace, kept))

\* A set iterator that starts at the first registered operation, survivor or not.
FirstOfAnyRegistered(operations, order) == order[1]

\* next(iter(operations)): the first member in the set's iteration order, which is
\* fixed for a given set of objects within one process.
FirstOf(operations, order) ==
    order[CHOOSE k \in 1..Len(order) :
              /\ order[k] \in operations
              /\ \A j \in 1..(k - 1) : order[j] \notin operations]

\* The candidates of lines 150-154: registered, usable operations of that name, and
\* the builtins of that name.
Named(registry, name) ==
    {op \in registry : op.name = name /\ op.usable_in_command} \cup Range(builtin_operations(name))

\* The arity filter with >= for ==: longer parameter lists pass.
WithArityAtLeast(operations, args) == {op \in operations : Len(op.parameters) >= Len(args)}

\* Lines 157-160.
WithArity(operations, args) == {op \in operations : Len(op.parameters) = Len(args)}

FoResult(status, op, warned, candidates, survivors, trace) ==
    [status |-> status, op |-> op, warned |-> warned, candidates |-> candidates,
     survivors |-> survivors, trace |-> trace]

find_operation(order, name, args) ==
    LET named == Named(Range(order), name)
        operations == WithArity(named, args)
        loop == ArgLoop(operations, args, 1, <<>>)
        iter == order \o builtin_operations(name)
    IN IF named = {}
       THEN FoResult("NoSuchOperation", NoOperation, FALSE, {}, {}, <<>>)
       ELSE IF operations = {}
       THEN FoResult("ArityMismatch", NoOperation, FALSE, {}, {}, <<>>)
       ELSE IF loop.operations = {}
       THEN FoResult("NoMatchingOperation", NoOperation, FALSE, operations, {}, loop.trace)
       ELSE FoResult("ok", FirstOf(loop.operations, iter),
                     Cardinality(loop.operations) > 1, operations,
                     loop.operations, loop.trace)

(***************************************************************************)
(* The vistrail before anything was done to it.                            *)
(***************************************************************************)
NoCall == [op |-> "none"]

InitGraph ==
    /\ versions = <<>>
    /\ tags = <<>>
    /\ current = 0
    /\ nextId = 1
    /\ variables = <<>>
    /\ last = NoCall
    /\ objects = <<>>

graph == <<versions, tags, current>>

(***************************************************************************)
(* SpecMatch: calls of find_operation against a registry drawn at start.   *)
(***************************************************************************)
FoIdle == [status |-> "idle"]

NoResolve == [status |-> "none"]

InitMatch ==
    /\ variable_operations \in InjSeqs(OpSpace, MaxOps)
    /\ fo = FoIdle
    /\ returned = <<>>
    /\ rs = NoResolve
    /\ InitGraph

\* A call find_operation(name, args), up to its return or its exception.
FindOperation ==
    /\ fo.status = "idle"
    /\ \E name \in OpNames, args \in SeqsUpTo(Types, MaxArgs) :
          LET r == find_operation(variable_operations, name, args)
              tie == r.status = "ok" /\ r.warned
          IN /\ fo' = [status |-> r.status, name |-> name, args |-> args, op |-> r.op,
                       warned |-> r.warned, candidates |-> r.candidates,
                       survivors |-> r.survivors, trace |-> r.trace,
                       repeated |-> r.survivors \in DOMAIN returned]
             /\ returned' = IF tie /\ r.survivors \notin DOMAIN returned
                            THEN Put(returned, r.survivors, r.op)
                            ELSE returned
    /\ UNCHANGED <<objects, variable_operations, rs, versions, tags, current, nextId, variables, last>>

\* The caller goes on.
FindReturn ==
    /\ fo.status # "idle"
    /\ fo' = FoIdle
    /\ UNCHANGED <<objects, variable_operations, returned, rs,
                   versions, tags, current, nextId, variables, last>>

NextMatch == FindOperation \/ FindReturn

SpecMatch == InitMatch /\ [][NextMatch]_vars

Called == fo.status # "idle"

\* The operations retained before position i of the call in fo was processed.
SurvivingBefore(i) == IF i = 1 THEN fo.candidates ELSE fo.trace[i - 1]

(***************************************************************************)
(* C2.  find_operation never returns an operation whose parameter count    *)
(* differs from the number of arguments; when candidates of that name      *)
(* exist (registered and usable, or builtin) but none has exactly          *)
(* len(args) parameters, the call fails with the arity error and returns   *)
(* no operation.                                                           *)
(***************************************************************************)
C2_ArityNeverWrong ==
    Called =>
        LET named == {op \in Range(variable_operations) \cup Range(builtin_operations(fo.name)) :
                         op.name = fo.name /\ op.usable_in_command}
        IN /\ fo.status = "ok" => Len(fo.op.parameters) = Len(fo.args)
           /\ (named # {} /\ \A op \in named : Len(op.parameters) # Len(fo.args))
                  => fo.status = "ArityMismatch" /\ fo.op = NoOperation

\* An overloaded name (two arities registered) asked for with a third arity.
C2_Witness ==
    /\ Called
    /\ fo.status = "ArityMismatch"
    /\ \E o1, o2 \in Range(variable_operations) :
          /\ o1.name = fo.name /\ o2.name = fo.name
          /\ o1.usable_in_command /\ o2.usable_in_command
          /\ Len(o1.parameters) # Len(o2.parameters)

(***************************************************************************)
(* C3.  Matcher monotonicity, as claimed: at every processed position i,   *)
(* a still-surviving candidate that accepts the argument's concrete type   *)
(* itself has distance 0 there and is in the set retained after i.         *)
(***************************************************************************)
C3_ExactMatchRetained ==
    Called =>
        \A i \in 1..Len(fo.trace) :
            \A O \in SurvivingBefore(i) :
                fo.args[i] \in O.parameters[i] =>
                    /\ fo.args[i] \in DOMAIN parent_modules(fo.args[i])
                    /\ parent_modules(fo.args[i])[fo.args[i]] = 0
                    /\ O \in fo.trace[i]

NumV(n) == [str |-> FALSE, n |-> n, s |-> ""]
StrV(t) == [str |-> TRUE, n |-> 0, s |-> t]

Sym(name) == [tag |-> "SYMBOL", name |-> name, value |-> NumV(0), args |-> <<>>]
Num(n) == [tag |-> "NUMBER", name |-> "", value |-> NumV(n), args |-> <<>>]
Str(t) == [tag |-> "STRING", name |-> "", value |-> StrV(t), args |-> <<>>]
Op(name, args) == [tag |-> "OP", name |-> name, value |-> NumV(0), args |-> args]

Arithmetic == {"+", "-", "*", "/"}

\* A ComputeVariable object, or the exception raised instead of returning one.
Node(kind, value, type, var, op, args, err) ==
    [kind |-> kind, value |-> value, type |-> type, var |-> var, op |-> op,
     args |-> args, err |-> err]

Raise(err) == Node("raise", NumV(0), "", "", NoOperation, <<>>, err)

\* BuildConstant.__init__
BuildConstant(value) ==
    Node("BuildConstant", value, IF value.str THEN "String" ELSE "Float",
         "", NoOperation, <<>>, "")

\* GetExistingVariable.__init__
GetExistingVariable(vistraildata, varname) ==
    IF varname \notin DOMAIN vistraildata
    THEN Raise("UnknownVariable")
    ELSE Node("GetExistingVariable", NumV(0), vistraildata[varname].type,
              varname, NoOperation, <<>>, "")

\* ApplyOperation.__init__
ApplyOperation(name, args) ==
    LET r == find_operation(variable_operations, name, [k \in DOMAIN args |-> args[k].type])
    IN IF r.status # "ok"
       THEN Raise(r.status)
       ELSE Node("ApplyOperation", NumV(0), r.op.return_type, "", r.op, args, "")

\* Python's a / b on ints.
FloorDiv(a, b) == IF b > 0 THEN a \div b ELSE (-a) \div (-b)

RECURSIVE Repeat(_, _)
Repeat(t, n) == IF n <= 0 THEN "" ELSE t \o Repeat(t, n - 1)

\* Python's a <name> b on the values of two constants.
PyArith(name, a, b) ==
    IF ~a.str /\ ~b.str
    THEN CASE name = "+" -> BuildConstant(NumV(a.n + b.n))
           [] name = "-" -> BuildConstant(NumV(a.n - b.n))
           [] name = "*" -> BuildConstant(NumV(a.n * b.n))
           [] OTHER -> IF b.n = 0 THEN Raise("ZeroDivisionError")
                       ELSE BuildConstant(NumV(FloorDiv(a.n, b.n)))
    ELSE IF a.str /\ b.str /\ name = "+" THEN BuildConstant(StrV(a.s \o b.s))
    ELSE IF a.str /\ ~b.str /\ name = "*" THEN BuildConstant(StrV(Repeat(a.s, b.n)))
    ELSE IF ~a.str /\ b.str /\ name = "*" THEN BuildConstant(StrV(Repeat(b.s, a.n)))
    ELSE Raise("TypeError")

\* The folding of lines 85-93 with the operands of '-' and '/' exchanged.
FoldConstantsSwapped(name, args) ==
    IF Len(args) < 2 THEN Raise("IndexError")
    ELSE PyArith(name, args[2].value, args[1].value)

\* Lines 86-93: the operator applied to args[0] and args[1].
FoldConstants(name, args) ==
    IF Len(args) < 2 THEN Raise("IndexError")
    ELSE PyArith(name, args[1].value, args[2].value)

RECURSIVE resolve_symbols(_, _)
resolve_symbols(vistraildata, expr) ==
    IF expr.tag = "SYMBOL"
    THEN GetExistingVariable(vistraildata, expr.name)
    ELSE IF expr.tag \in {"NUMBER", "STRING"}
    THEN BuildConstant(expr.value)
    ELSE LET name == expr.name
             args == [k \in DOMAIN expr.args |-> resolve_symbols(vistraildata, expr.args[k])]
             raising == {k \in DOMAIN args : args[k].kind = "raise"}
         IN IF raising # {}
            THEN args[CHOOSE k \in raising : \A j \in raising : k <= j]
            ELSE IF (\A k \in DOMAIN args : args[k].kind = "BuildConstant")
                    /\ name \in Arithmetic
            THEN FoldConstants(name, args)
            ELSE ApplyOperation(name, args)

(***************************************************************************)
(* The vistrail.  An action is a list of edits; version v is the action    *)
(* versions[v], child of versions[v].parent.  vt stands for the controller *)
(* and its vistrail: [versions, tags, current, nextId].                    *)
(***************************************************************************)
Edit(kind, id, type, fn, val, src, sport, dst, dport) ==
    [kind |-> kind, id |-> id, type |-> type, fn |-> fn, val |-> val,
     src |-> src, sport |-> sport, dst |-> dst, dport |-> dport]

\* ('add', module)
AddModule(id, type) == Edit("add_module", id, type, "", "", 0, "", 0, "")
\* controller.update_function_ops(module, name, [value])
SetFunction(id, fn, val) == Edit("set_function", id, "", fn, val, 0, "", 0, "")
\* ('add', connection)
AddConnection(src, sport, dst, dport) ==
    Edit("add_connection", 0, "", "", "", src, sport, dst, dport)

NoRecipe == [plot |-> "", variables |-> <<>>]

VT == [versions |-> versions, tags |-> tags, current |-> current, nextId |-> nextId]

has_tag_str(vt, tag) == tag \in DOMAIN vt.tags

get_version_number(vt, tag) == vt.tags[tag]

change_selected_version(vt, v) == [vt EXCEPT !.current = v]

\* vistrail.set_tag: a version carries one tag; the new one replaces it.
set_tag(vt, version, tag) ==
    [vt EXCEPT !.tags =
        [t \in {u \in DOMAIN vt.tags : vt.tags[u] # version} \cup {tag} |->
            IF t = tag THEN version ELSE vt.tags[t]]]

\* create_action, add_new_action and perform_action: the edits become a new
\* version, child of the selected one, which is then the selected one.
perform_action(vt, ops, maker, recipe) ==
    [vt EXCEPT !.versions = Append(vt.versions,
                                   [parent |-> vt.current, ops |-> ops,
                                    maker |-> maker, recipe |-> recipe]),
               !.current = Len(vt.versions) + 1]

RECURSIVE ActionChain(_, _)
\* The edits that make up version v, from the root down.
ActionChain(vt, v) ==
    IF v = 0 THEN <<>> ELSE ActionChain(vt, vt.versions[v].parent) \o vt.versions[v].ops

\* vistrail.getPipeline(version), as the edits that build it.
getPipeline(vt, v) == ActionChain(vt, v)

\* pipeline.modules, in the order of their ids' creation.
ModulesOf(ops) == LET IsAdd(o) == o.kind = "add_module" IN SelectSeq(ops, IsAdd)

ModuleIds(ops) == {o.id : o \in {x \in Range(ops) : x.kind = "add_module"}}

ConnectionsOf(ops) == LET IsConn(o) == o.kind = "add_connection" IN SelectSeq(ops, IsConn)

FunctionsOf(ops, id) ==
    LET IsFn(o) == o.kind = "set_function" /\ o.id = id IN SelectSeq(ops, IsFn)

ModuleType(ops, id) == (CHOOSE o \in Range(ops) : o.kind = "add_module" /\ o.id = id).type

\* _get_function(module, function_name)
get_function(ops, id, function_name) ==
    LET IsFn(o) == o.kind = "set_function" /\ o.id = id /\ o.fn = function_name
        fs == SelectSeq(ops, IsFn)
    IN IF fs = <<>> THEN "None" ELSE fs[Len(fs)].val

TagVars == "dat-vars"

TagVar(name) == "dat-var-" \o name

\* _get_variables_root creating a root whether or not one is tagged already.
get_variables_root_always_create(vt) ==
    LET out_mod == vt.nextId
        operations == <<AddModule(out_mod, "OutputPort"), SetFunction(out_mod, "name", "value")>>
        vt1 == [change_selected_version(vt, 0) EXCEPT !.nextId = out_mod + 1]
        vt2 == perform_action(vt1, operations, "root", NoRecipe)
        vt3 == set_tag(change_selected_version(vt2, vt2.current), vt2.current, TagVars)
    IN [vt |-> vt3, root_version |-> vt3.current, outmod_id |-> out_mod,
        created |-> TRUE, assert_ok |-> TRUE]

\* Variable._get_variables_root: create or get the version tagged 'dat-vars'.
get_variables_root(vt) ==
    LET out_mod == vt.nextId
        operations == <<AddModule(out_mod, "OutputPort"), SetFunction(out_mod, "name", "value")>>
        vt1 == [change_selected_version(vt, 0) EXCEPT !.nextId = out_mod + 1]
        vt2 == perform_action(vt1, operations, "root", NoRecipe)
        root_new == vt2.current
        vt3 == set_tag(change_selected_version(vt2, root_new), root_new, TagVars)
        vtr == IF has_tag_str(vt, TagVars) THEN vt ELSE vt3
        root_version == IF has_tag_str(vt, TagVars) THEN get_version_number(vt, TagVars)
                        ELSE root_new
        outmod_id == ModuleIds(getPipeline(vtr, root_version))
    IN [vt |-> vtr, root_version |-> root_version,
        outmod_id |-> CHOOSE m \in outmod_id : TRUE,
        created |-> ~has_tag_str(vt, TagVars),
        assert_ok |-> Cardinality(outmod_id) = 1]

(***************************************************************************)
(* Executing a compute tree.  An execution mints module ids and returns    *)
(* the buffered edits of the new Variable with its output port; nothing    *)
(* is added to the vistrail until the Variable is inserted.                *)
(***************************************************************************)
\* str(value)
PyStr(value) == IF value.str THEN value.s ELSE ToString(value.n)

Built(ops, out, port, type, next) ==
    [ok |-> TRUE, err |-> "", ops |-> ops, out |-> out, port |-> port, type |-> type,
     next |-> next]

Failed(err, next) ==
    [ok |-> FALSE, err |-> err, ops |-> <<>>, out |-> 0, port |-> "", type |-> "",
     next |-> next]

\* BuildConstant.execute
BuildConstantExecute(node, id) ==
    Built(<<AddModule(id, node.type), SetFunction(id, "value", PyStr(node.value))>>,
          id, "value", node.type, id + 1)

\* The position of the module with this id among mods.
IndexOf(mods, id) == CHOOSE k \in 1..Len(mods) : mods[k].id = id

\* The module of a variable's pipeline that is the 'dat-vars' OutputPort.
IsValueOutput(ops, id) ==
    ModuleType(ops, id) = "OutputPort" /\ get_function(ops, id, "name") = "value"

\* Variable.from_workflow: the variable's materialized pipeline, copied under new
\* ids without its OutputPort; the output is what fed the OutputPort.
from_workflow(vt, varname, type, id) ==
    LET pipeline == getPipeline(vt, get_version_number(vt, TagVar(varname)))
        IsCopied(o) == o.kind = "add_module" /\ ~IsValueOutput(pipeline, o.id)
        mods == SelectSeq(pipeline, IsCopied)
        copied == {mods[k].id : k \in 1..Len(mods)}
        new(old) == id + IndexOf(mods, old) - 1
        Kept(o) == \/ o.kind \in {"add_module", "set_function"} /\ o.id \in copied
                   \/ o.kind = "add_connection" /\ o.src \in copied /\ o.dst \in copied
        kept == SelectSeq(pipeline, Kept)
        feeding == {o \in Range(pipeline) :
                       o.kind = "add_connection" /\ o.src \in copied /\ o.dst \notin copied}
        feed == CHOOSE o \in feeding : TRUE
    IN Built([k \in 1..Len(kept) |->
                 IF kept[k].kind = "add_connection"
                 THEN AddConnection(new(kept[k].src), kept[k].sport,
                                    new(kept[k].dst), kept[k].dport)
                 ELSE [kept[k] EXCEPT !.id = new(kept[k].id)]],
             IF feeding = {} THEN 0 ELSE new(feed.src),
             IF feeding = {} THEN "" ELSE feed.sport,
             type, id + Len(mods))

RECURSIVE Concat(_)
Concat(ss) == IF ss = <<>> THEN <<>> ELSE Head(ss) \o Concat(Tail(ss))

\* What a callback or a subworkflow builds from the argument variables: their
\* edits, one module for the operation, and a connection from each argument.
OperationResult(op, args, id) ==
    Built(Concat([k \in DOMAIN args |-> args[k].ops])
              \o <<AddModule(id, "Op_" \o op.name)>>
              \o [k \in DOMAIN args |->
                     AddConnection(args[k].out, args[k].port, id, "arg" \o ToString(k))],
          id, "result", op.return_type, id + 1)

\* apply_operation that takes whatever the callback returned, None included.
apply_operation_unchecked(op, args, id, returnsNone) == OperationResult(op, args, id)

\* apply_operation: a callback that returns None is a package error.
apply_operation(op, args, id, returnsNone) ==
    IF op.callback /\ returnsNone
    THEN Failed("OperationImplementationError", id)
    ELSE OperationResult(op, args, id)

RECURSIVE Execute(_, _, _, _), ExecuteArgs(_, _, _, _, _)
\* [arg.execute(controller) for arg in self._args], from argument k on.
ExecuteArgs(vt, nodes, k, id, returnsNone) ==
    IF k > Len(nodes)
    THEN [ok |-> TRUE, err |-> "", results |-> <<>>, next |-> id]
    ELSE LET r == Execute(vt, nodes[k], id, returnsNone) IN
         IF ~r.ok
         THEN [ok |-> FALSE, err |-> r.err, results |-> <<>>, next |-> r.next]
         ELSE LET rest == ExecuteArgs(vt, nodes, k + 1, r.next, returnsNone) IN
              [rest EXCEPT !.results = <<r>> \o rest.results]

\* ComputeVariable.execute, by the node's class.
Execute(vt, node, id, returnsNone) ==
    CASE node.kind = "BuildConstant" -> BuildConstantExecute(node, id)
      [] node.kind = "GetExistingVariable" -> from_workflow(vt, node.var, node.type, id)
      [] OTHER ->
            LET args == ExecuteArgs(vt, node.args, 1, id, returnsNone) IN
            IF ~args.ok THEN Failed(args.err, args.next)
            ELSE apply_operation(node.op, args.results, args.next, returnsNone)

\* perform_operations committing on whichever version is selected.
perform_operations_on_selected(vt, root_version, operations, name) ==
    LET vt1 == perform_action(vt, operations, "variable", NoRecipe)
        var_version == vt1.current
    IN change_selected_version(set_tag(vt1, var_version, TagVar(name)), var_version)

\* Variable.perform_operations: the buffered edits become a child of 'dat-vars',
\* tagged with the variable's name and selected.
perform_operations(vt, root_version, operations, name) ==
    LET vt1 == perform_action(change_selected_version(vt, root_version), operations,
                              "variable", NoRecipe)
        var_version == vt1.current
    IN change_selected_version(set_tag(vt1, var_version, TagVar(name)), var_version)

(***************************************************************************)
(* SpecFold: resolve_symbols on arithmetic trees over number literals,     *)
(* and the execution of the resolved tree.                                 *)
(***************************************************************************)
MaxOperators == 2   \* operators in an arithmetic tree
MaxLiteral == 2     \* number literals are 0..MaxLiteral

RECURSIVE ArithTrees(_)
\* The trees with exactly k operators.
ArithTrees(k) ==
    IF k = 0
    THEN {Num(n) : n \in 0..MaxLiteral}
    ELSE UNION {LET left == ArithTrees(i)
                    right == ArithTrees(k - 1 - i)
                IN {Op(o, <<l, r>>) : o \in Arithmetic, l \in left, r \in right} :
                i \in 0..(k - 1)}

InitFold ==
    /\ variable_operations = <<>>
    /\ fo = FoIdle
    /\ returned = <<>>
    /\ rs = NoResolve
    /\ InitGraph

\* resolve_symbols(vistraildata, expr_tree) called on this tree.
Resolve(expr) ==
    LET node == resolve_symbols(variables, expr) IN
    rs' = [status |-> IF node.kind = "raise" THEN "raised" ELSE "resolved",
           expr |-> expr, node |-> node, executed |-> FALSE, built |-> <<>>]

\* resolve_symbols on an arithmetic tree of at most MaxOperators operators: a
\* literal, or an operator over two subtrees.
FoldResolve ==
    /\ rs.status = "none"
    /\ \/ \E n \in 0..MaxLiteral : Resolve(Num(n))
       \/ \E i, j \in 0..(MaxOperators - 1) :
              /\ i + j + 1 <= MaxOperators
              /\ \E o \in Arithmetic, l \in ArithTrees(i), r \in ArithTrees(j) :
                     Resolve(Op(o, <<l, r>>))
    /\ UNCHANGED <<objects, variable_operations, fo, returned,
                   versions, tags, current, nextId, variables, last>>

\* op_tree.execute(controller) on the resolved tree.
FoldExecute ==
    /\ rs.status = "resolved"
    /\ ~rs.executed
    /\ LET r == Execute(VT, rs.node, nextId, FALSE) IN
          /\ rs' = [rs EXCEPT !.executed = TRUE, !.built = r.ops]
          /\ nextId' = r.next
    /\ UNCHANGED <<objects, variable_operations, fo, returned,
                   versions, tags, current, variables, last>>

NextFold == FoldResolve \/ FoldExecute

SpecFold == InitFold /\ [][NextFold]_vars

Abs(n) == IF n < 0 THEN -n ELSE n

RECURSIVE Eval(_)
\* Direct evaluation of an arithmetic tree: the quotient of a by b is the integer q
\* with q*b <= a < (q+1)*b (b > 0) or q*b >= a > (q+1)*b (b < 0); none for b = 0.
Eval(expr) ==
    IF expr.tag = "NUMBER" THEN [ok |-> TRUE, n |-> expr.value.n]
    ELSE LET a == Eval(expr.args[1])
             b == Eval(expr.args[2])
         IN IF ~a.ok \/ ~b.ok \/ (expr.name = "/" /\ b.n = 0)
            THEN [ok |-> FALSE, n |-> 0]
            ELSE [ok |-> TRUE,
                  n |-> CASE expr.name = "+" -> a.n + b.n
                          [] expr.name = "-" -> a.n - b.n
                          [] expr.name = "*" -> a.n * b.n
                          [] OTHER -> CHOOSE q \in (-Abs(a.n))..Abs(a.n) :
                                         \/ b.n > 0 /\ q * b.n <= a.n /\ a.n < (q + 1) * b.n
                                         \/ b.n < 0 /\ q * b.n >= a.n /\ a.n > (q + 1) * b.n]

\* The resolved tree is one BuildConstant of that number, and executing it built
\* one literal module holding it and no operation module.
FoldedTo(n) ==
    /\ rs.status = "resolved"
    /\ rs.node = BuildConstant(NumV(n))
    /\ rs.executed =>
          /\ Len(ModulesOf(rs.built)) = 1
          /\ ModulesOf(rs.built)[1].type = "Float"
          /\ get_function(rs.built, ModulesOf(rs.built)[1].id, "value") = ToString(n)
          /\ ConnectionsOf(rs.built) = <<>>

(***************************************************************************)
(* C1, as claimed: every tree of number literals and + - * / resolves to   *)
(* a single BuildConstant holding the value of its direct evaluation, and  *)
(* executing it builds one literal module and no operation module.         *)
(***************************************************************************)
C1_EveryTreeFolds ==
    rs.status # "none" => Eval(rs.expr).ok /\ FoldedTo(Eval(rs.expr).n)

(***************************************************************************)
(* C1, amended: the above for every tree whose evaluation divides by zero  *)
(* nowhere; a tree that does divide by zero makes resolve_symbols raise    *)
(* ZeroDivisionError, and no node is returned.                             *)
(***************************************************************************)
C1_FoldsWhereDefined ==
    rs.status # "none" =>
        IF Eval(rs.expr).ok
        THEN FoldedTo(Eval(rs.expr).n)
        ELSE rs.status = "raised" /\ rs.node = Raise("ZeroDivisionError")

\* A nested tree with a division and a subtraction, resolved and executed.
C1_Witness ==
    /\ rs.status = "resolved"
    /\ rs.executed
    /\ rs.expr.tag = "OP"
    /\ rs.expr.name = "/"
    /\ rs.expr.args[1].tag = "OP"
    /\ rs.expr.args[1].name = "-"
    /\ Eval(rs.expr).n < 0

(***************************************************************************)
(* perform_operation                                                       *)
(***************************************************************************)
Outcome(status, phase, vt, vd) == [status |-> status, phase |-> phase, vt |-> vt, vd |-> vd]

\* VistrailManager.new_variable: the Variable is registered under the name and
\* materialized, its output port connected to the OutputPort of 'dat-vars'.
new_variable(vt, vd, root, name, variable) ==
    LET operations == variable.ops
                      \o <<AddConnection(variable.out, variable.port,
                                         root.outmod_id, "InternalPipe")>>
        vt1 == perform_operations([vt EXCEPT !.nextId = variable.next],
                                  root.root_version, operations, name)
    IN Outcome("ok", "done", vt1,
               Put(vd, name, [version |-> vt1.current, type |-> variable.type]))

\* perform_operation that looks for the target name after resolving the tree.
perform_operation_resolve_first(vt, vd, target, expr_tree, returnsNone) ==
    LET root == get_variables_root(vt)
        op_tree == resolve_symbols(vd, expr_tree)
        variable == Execute(root.vt, op_tree, root.vt.nextId, returnsNone)
    IN IF op_tree.kind = "raise"
       THEN Outcome(op_tree.err, "resolution", root.vt, vd)
       ELSE IF target \in DOMAIN vd
       THEN Outcome("DuplicateVariable", "precheck", root.vt, vd)
       ELSE IF ~variable.ok
       THEN Outcome(variable.err, "execution", [root.vt EXCEPT !.nextId = variable.next], vd)
       ELSE new_variable(root.vt, vd, root, target, variable)

\* perform_operation(expression), from the parsed (target, expr_tree) on.
perform_operation(vt, vd, target, expr_tree, returnsNone) ==
    LET root == get_variables_root(vt)
        op_tree == resolve_symbols(vd, expr_tree)
        variable == Execute(root.vt, op_tree, root.vt.nextId, returnsNone)
    IN IF target \in DOMAIN vd
       THEN Outcome("DuplicateVariable", "precheck", root.vt, vd)
       ELSE IF op_tree.kind = "raise"
       THEN Outcome(op_tree.err, "resolution", root.vt, vd)
       ELSE IF ~variable.ok
       THEN Outcome(variable.err, "execution", [root.vt EXCEPT !.nextId = variable.next], vd)
       ELSE new_variable(root.vt, vd, root, target, variable)

(***************************************************************************)
(* create_pipeline.  A recipe is a plot and a variable for each of its     *)
(* parameters; a Variable object is identified by its version.  A plot's   *)
(* subworkflow is a pipeline of its own file, with its own module ids.     *)
(***************************************************************************)
Plots == {"line", "fanout"}

\* vistrail.getPipeline(version) of the plot's subworkflow file.
PlotTemplate(plot) ==
    CASE plot = "line" ->
            <<AddModule(101, "InputPort"), SetFunction(101, "name", "x"),
              AddModule(102, "InputPort"), SetFunction(102, "name", "y"),
              AddModule(103, "Plotter"), SetFunction(103, "style", "solid"),
              AddModule(104, "Cell"),
              AddConnection(101, "InternalPipe", 103, "xs"),
              AddConnection(102, "InternalPipe", 103, "ys"),
              AddConnection(103, "figure", 104, "in")>>
      [] OTHER ->
            <<AddModule(101, "InputPort"), SetFunction(101, "name", "x"),
              AddModule(102, "Histogram"),
              AddModule(103, "Cell"),
              AddConnection(101, "InternalPipe", 102, "data"),
              AddConnection(101, "InternalPipe", 103, "raw"),
              AddConnection(102, "figure", 103, "in")>>

\* The names of the plot's InputPort modules.
PlotPorts(plot) ==
    {get_function(PlotTemplate(plot), m.id, "name") :
        m \in {o \in Range(PlotTemplate(plot)) : o.kind = "add_module" /\ o.type = "InputPort"}}

\* The order in which recipe.variables.iteritems() yields the parameters.
ParamOrder == <<"x", "y">>

\* The version create_pipeline selects before building (line 404).
BaseVersion == 0

\* create_pipeline building on whatever version is selected.
PipelineBaseCurrent(vt) == vt.current

\* Line 404: controller.change_selected_version(0)
PipelineBase(vt) == BaseVersion

RECURSIVE PlotParams(_, _, _, _)
\* Lines 447-454: plot_params after the connections from position k on.
PlotParams(plot_pipeline, new_modules_map, k, plot_params) ==
    LET conns == ConnectionsOf(plot_pipeline) IN
    IF k > Len(conns) THEN plot_params
    ELSE IF ModuleType(plot_pipeline, conns[k].src) = "InputPort"
    THEN PlotParams(plot_pipeline, new_modules_map, k + 1,
                    Put(plot_params, get_function(plot_pipeline, conns[k].src, "name"),
                        [module |-> new_modules_map[conns[k].dst], port |-> conns[k].dport]))
    ELSE PlotParams(plot_pipeline, new_modules_map, k + 1, plot_params)

\* Lines 425-461: the plot's modules but the InputPorts, under new ids, and its
\* connections but those from the InputPorts.
CopyPlot(plot_pipeline, id) ==
    LET IsCopied(o) == o.kind = "add_module" /\ o.type # "InputPort"
        mods == SelectSeq(plot_pipeline, IsCopied)
        new_modules_map == [old \in {mods[k].id : k \in 1..Len(mods)} |->
                               id + IndexOf(mods, old) - 1]
        Functions(old) ==
            LET fs == FunctionsOf(plot_pipeline, old) IN
            [k \in 1..Len(fs) |-> SetFunction(new_modules_map[old], fs[k].fn, fs[k].val)]
        Internal(c) == ModuleType(plot_pipeline, c.src) # "InputPort"
        conns == SelectSeq(ConnectionsOf(plot_pipeline), Internal)
    IN [operations |->
            Concat([k \in 1..Len(mods) |->
                      <<AddModule(new_modules_map[mods[k].id], mods[k].type)>>
                      \o Functions(mods[k].id)])
            \o [k \in 1..Len(conns) |->
                   AddConnection(new_modules_map[conns[k].src], conns[k].sport,
                                 new_modules_map[conns[k].dst], conns[k].dport)],
        new_modules_map |-> new_modules_map,
        plot_params |-> PlotParams(plot_pipeline, new_modules_map, 1, <<>>),
        next |-> id + Len(mods)]

\* Lines 464-500 for one (param, variable): the variable's modules but its
\* OutputPort, added as they are, and its connections, the one to the OutputPort
\* redirected to the plot's parameter.
InlineVariable(vt, plot_params, param, varname) ==
    LET pipeline == getPipeline(vt, get_version_number(vt, TagVar(varname)))
        output_id == CHOOSE id \in ModuleIds(pipeline) : IsValueOutput(pipeline, id)
        IsCopied(o) == o.kind \in {"add_module", "set_function"} /\ o.id # output_id
        conns == ConnectionsOf(pipeline)
    IN SelectSeq(pipeline, IsCopied)
       \o [k \in 1..Len(conns) |->
              IF conns[k].dst = output_id
              THEN AddConnection(conns[k].src, conns[k].sport,
                                 plot_params[param].module, plot_params[param].port)
              ELSE conns[k]]

\* The name the Manager knows the Variable object by.
NameOf(vd, version) == CHOOSE n \in DOMAIN vd : vd[n].version = version

create_pipeline(vt, vd, recipe) ==
    LET vt0 == change_selected_version(vt, PipelineBase(vt))
        plot == CopyPlot(PlotTemplate(recipe.plot), vt.nextId)
        IsBound(p) == p \in DOMAIN recipe.variables
        params == SelectSeq(ParamOrder, IsBound)
        operations ==
            plot.operations
            \o Concat([k \in 1..Len(params) |->
                         InlineVariable(vt, plot.plot_params, params[k],
                                        NameOf(vd, recipe.variables[params[k]]))])
        vt1 == perform_action([vt0 EXCEPT !.nextId = plot.next], operations,
                              "pipeline", recipe)
    IN [vt |-> vt1, pipeline_version |-> vt1.current, operations |-> operations,
        new_modules_map |-> plot.new_modules_map]

(***************************************************************************)
(* Spec: the vistrail under perform_operation, rename and create_pipeline. *)
(***************************************************************************)
MaxVersions == 4    \* versions in the vistrail, the root version 0 not counted
MaxId == 9          \* module ids minted

VarNames == {"a", "b"}

\* The operations registered by packages: f(Float, Float), a native callback.
GraphRegistry == <<OperationWith("f", <<{"Float"}, {"Float"}>>, TRUE, "Float", TRUE)>>

\* The right-hand sides entered.
Expressions ==
    {Num(2),
     Sym("a"),
     Op("/", <<Num(1), Num(0)>>),
     Op("f", <<Sym("a"), Num(1)>>),
     Op("f", <<Num(1), Op("*", <<Num(2), Num(2)>>)>>),
     Op("f", <<Num(1)>>),
     Op("f", <<Str("s"), Num(1)>>),
     Op("h", <<Num(1)>>)}

Init ==
    /\ variable_operations = GraphRegistry
    /\ fo = FoIdle
    /\ returned = <<>>
    /\ rs = NoResolve
    /\ InitGraph

Install(vt) ==
    /\ Len(vt.versions) <= MaxVersions
    /\ vt.nextId <= MaxId + 1
    /\ versions' = vt.versions
    /\ tags' = vt.tags
    /\ current' = vt.current
    /\ nextId' = vt.nextId

\* perform_operation("<target> = <expression>"); returnsNone is what the callbacks
\* of the operations applied do.
PerformOperation ==
    \E target \in VarNames, expr \in Expressions :
        \E returnsNone \in IF expr.name = "f" THEN BOOLEAN ELSE {FALSE} :
            LET r == perform_operation(VT, variables, target, expr, returnsNone) IN
            /\ Install(r.vt)
            /\ variables' = r.vd
            /\ last' = [op |-> "perform_operation", target |-> target, expr |-> expr,
                        status |-> r.status, phase |-> r.phase,
                        callbackNone |-> returnsNone]
            /\ UNCHANGED <<objects, variable_operations, fo, returned, rs>>

\* Variable.rename tagging whichever version is selected.
rename_selected(vt, var_version, name) == set_tag(vt, vt.current, TagVar(name))

\* Variable.rename (lines 276-283): the variable's version is tagged with its name.
rename(vt, var_version, name) == set_tag(vt, var_version, TagVar(name))

\* Manager.rename_variable: the name changes, then Variable.rename re-tags.
Rename ==
    \E old \in DOMAIN variables, new \in VarNames \ DOMAIN variables :
        /\ Install(rename(VT, variables[old].version, new))
        /\ variables' = [n \in (DOMAIN variables \ {old}) \cup {new} |->
                            IF n = new THEN variables[old] ELSE variables[n]]
        /\ last' = [op |-> "rename", old |-> old, new |-> new, again |-> FALSE]
        /\ UNCHANGED <<objects, variable_operations, fo, returned, rs>>

\* Variable.rename called once more, the name being the same.
RenameAgain ==
    /\ last.op = "rename"
    /\ Install(rename(VT, variables[last.new].version, last.new))
    /\ last' = [last EXCEPT !.again = TRUE]
    /\ UNCHANGED <<objects, variable_operations, fo, returned, rs, variables>>

VarVersions == {variables[n].version : n \in DOMAIN variables}

\* create_pipeline(recipe), the recipe binding each parameter of the plot to a
\* materialized variable.
CreatePipeline ==
    \E plot \in Plots :
        \E bound \in [PlotPorts(plot) -> VarVersions] :
            LET recipe == [plot |-> plot, variables |-> bound]
                r == create_pipeline(VT, variables, recipe)
            IN /\ Install(r.vt)
               /\ last' = [op |-> "create_pipeline", recipe |-> recipe,
                           pipeline_version |-> r.pipeline_version,
                           operations |-> r.operations,
                           new_modules_map |-> r.new_modules_map]
               /\ UNCHANGED <<objects, variable_operations, fo, returned, rs, variables>>

Next == PerformOperation \/ Rename \/ RenameAgain \/ CreatePipeline

Spec == Init /\ [][Next]_vars

\* The step was a call of perform_operation.
PerformStep == last'.op = "perform_operation"

\* The call found no 'dat-vars' root and added it: one OutputPort module named
\* 'value', tagged and selected.
RootAdded ==
    /\ versions' = Append(versions,
                          [parent |-> 0,
                           ops |-> <<AddModule(nextId, "OutputPort"),
                                     SetFunction(nextId, "name", "value")>>,
                           maker |-> "root", recipe |-> NoRecipe])
    /\ tags' = Put(tags, TagVars, Len(versions) + 1)
    /\ current' = Len(versions) + 1

\* The vistrail after a call that got no further than the lookup of the root.
OnlyRootEnsured == IF has_tag_str(VT, TagVars) THEN graph' = graph ELSE RootAdded

ResolutionErrors ==
    {"UnknownVariable", "NoSuchOperation", "ArityMismatch", "NoMatchingOperation",
     "ZeroDivisionError"}

(***************************************************************************)
(* C5.  perform_operation with a target that names a known variable fails  *)
(* with the duplicate-variable error whatever the right-hand side is; no   *)
(* variable is registered and the vistrail is unchanged.                   *)
(***************************************************************************)
C5_DuplicateTarget ==
    [][(PerformStep /\ last'.target \in DOMAIN variables) =>
          /\ last'.status = "DuplicateVariable"
          /\ variables' = variables
          /\ graph' = graph]_vars

\* A duplicate target whose right-hand side names an unknown operation.
C5_Witness ==
    /\ last.op = "perform_operation"
    /\ last.status = "DuplicateVariable"
    /\ last.expr = Op("h", <<Num(1)>>)
    /\ last.target \in DOMAIN variables

CallbackReturnedNone ==
    /\ PerformStep
    /\ last'.callbackNone
    /\ last'.target \notin DOMAIN variables
    /\ resolve_symbols(variables, last'.expr).kind = "ApplyOperation"
    /\ resolve_symbols(variables, last'.expr).op.callback

PipelineBuilt == last.op = "create_pipeline"

\* The committed pipeline of the Variable a recipe binds to parameter p.
BoundPipeline(recipe, p) == getPipeline(VT, recipe.variables[p])

(***************************************************************************)
(* C8.  Every module create_pipeline adds carries a freshly minted id: no  *)
(* id of the plot template and no id of a variable's committed subgraph is *)
(* reused, and the ids of the modules added are pairwise distinct.         *)
(***************************************************************************)
C8_FreshIds ==
    PipelineBuilt =>
        LET mods == ModulesOf(last.operations)
            recipe == last.recipe
        IN /\ \A i, j \in 1..Len(mods) : i # j => mods[i].id # mods[j].id
           /\ \A k \in 1..Len(mods) :
                 /\ mods[k].id \notin ModuleIds(PlotTemplate(recipe.plot))
                 /\ \A p \in DOMAIN recipe.variables :
                       mods[k].id \notin ModuleIds(BoundPipeline(recipe, p))

(***************************************************************************)
(* C9.  For every connection of the plot template from an InputPort named  *)
(* p, and the variable V the recipe binds p to, the operations built hold  *)
(* a connection from the module and port that fed V's OutputPort to the    *)
(* copy of that connection's destination, same port; and they add no       *)
(* InputPort and no OutputPort module.                                     *)
(***************************************************************************)
C9_EveryDestinationWired ==
    PipelineBuilt =>
        LET recipe == last.recipe
            template == PlotTemplate(recipe.plot)
            FromPlaceholder(c) == ModuleType(template, c.src) = "InputPort"
            placeholders == SelectSeq(ConnectionsOf(template), FromPlaceholder)
        IN /\ \A k \in 1..Len(placeholders) :
                 LET c == placeholders[k]
                     p == get_function(template, c.src, "name")
                     pipeline == BoundPipeline(recipe, p)
                     output_id == CHOOSE id \in ModuleIds(pipeline) :
                                      IsValueOutput(pipeline, id)
                 IN \A f \in Range(ConnectionsOf(pipeline)) :
                        f.dst = output_id =>
                            AddConnection(f.src, f.sport,
                                          last.new_modules_map[c.dst], c.dport)
                                \in Range(last.operations)
           /\ \A m \in Range(ModulesOf(last.operations)) :
                 m.type \notin {"InputPort", "OutputPort"}

\* The edit list with every module id replaced by the position of the first
\* add of that id: equal for two lists exactly when one is the other under a
\* renaming of ids.
Canon(ops) ==
    LET mods == ModulesOf(ops)
        Rank(id) == IF id \in ModuleIds(ops)
                    THEN CHOOSE k \in 1..Len(mods) :
                             /\ mods[k].id = id
                             /\ \A j \in 1..(k - 1) : mods[j].id # id
                    ELSE 0
    IN [k \in 1..Len(ops) |->
           [ops[k] EXCEPT !.id = Rank(@), !.src = Rank(@), !.dst = Rank(@)]]

\* The versions create_pipeline committed.
PipelineVersions == {v \in 1..Len(versions) : versions[v].maker = "pipeline"}

MintedIds(v) ==
    ModuleIds(versions[v].ops)
        \ UNION {ModuleIds(BoundPipeline(versions[v].recipe, p)) :
                    p \in DOMAIN versions[v].recipe.variables}

RECURSIVE Steps(_, _)
\* The number of inheritance steps on the shortest path from type t up to type e;
\* maxint when e is not t nor an ancestor of t.
Steps(t, e) ==
    IF t = e THEN 0
    ELSE LET up == {Steps(Bases(t)[k], e) : k \in 1..Len(Bases(t))} \ {maxint}
         IN IF up = {} THEN maxint
            ELSE 1 + CHOOSE d \in up : \A x \in up : d <= x

\* The distance of a candidate at position i of the call in fo: the smallest
\* number of steps from the argument's type to a type the candidate accepts there.
Distance(op, i) ==
    LET ds == {Steps(fo.args[i], e) : e \in op.parameters[i]}
    IN CHOOSE d \in ds : \A x \in ds : d <= x

\* The candidate accepts the argument at position i: a type it accepts there is the
\* argument's type or one of its ancestors.
Accepts(op, i) == Distance(op, i) < maxint

C16_NoMatchOnlyWhenNoneAccepts ==
    (Called /\ \E op \in fo.candidates : \A i \in 1..Len(fo.args) : Accepts(op, i)) =>
        /\ fo.status = "ok"
        /\ \A i \in 1..Len(fo.args) : Accepts(fo.op, i)

(***************************************************************************)
(* C11.  After rename, exactly one tag, 'dat-var-<name>', points at the    *)
(* variable's version and no tag carries the previous name; calling rename *)
(* again with the same name leaves the tags as the first call left them.   *)
(***************************************************************************)
C11_RenameIdempotent ==
    [][last'.op = "rename" =>
          LET version == variables'[last'.new].version IN
          /\ {t \in DOMAIN tags' : tags'[t] = version} = {TagVar(last'.new)}
          /\ TagVar(last'.old) \notin DOMAIN tags'
          /\ last'.again => tags' = tags /\ versions' = versions]_vars

\* rename called twice on a variable whose version is not the selected one.
C11_Witness ==
    /\ last.op = "rename"
    /\ last.again
    /\ variables[last.new].version # current

(***************************************************************************)
(* SpecLoader: packages building Variables through the wrapper API         *)
(* (Variable(), add_module, connect_outputport_to, select_output_port),    *)
(* the Manager inserting them (perform_operations), and create_pipeline.   *)
(***************************************************************************)
\* The Variable objects there can be, and the modules the package building each
\* adds to it, in the order its code adds them.
ObjIds == <<"u", "w">>
\* The name the Manager inserts each of them under.
InsertedAs == [u |-> "a", w |-> "b"]
LoaderModules == [u |-> <<"Reader", "Filter">>, w |-> <<"Reader">>]

\* Variable.__init__ (lines 194-218)
Variable(vt) ==
    LET r == get_variables_root(vt) IN
    [vt |-> r.vt, assert_ok |-> r.assert_ok,
     variable |-> [root_version |-> r.root_version, output_module_id |-> r.outmod_id,
                   operations |-> <<>>, output_designated |-> FALSE, var_version |-> 0]]

\* Variable.add_module, ModuleWrapper.__init__: the module is created and buffered.
add_module(variable, id, module_type) ==
    [variable EXCEPT !.operations = Append(@, AddModule(id, module_type))]

\* ModuleWrapper.connect_outputport_to; same_variable: both wrappers are of this Variable.
connect_outputport_to(variable, same_variable, module, outputport_name, other_module, inputport_name) ==
    IF ~same_variable THEN [status |-> "ValueError", variable |-> variable]
    ELSE [status |-> "ok",
          variable |-> [variable EXCEPT !.operations =
                           Append(@, AddConnection(module, outputport_name,
                                                   other_module, inputport_name))]]

\* Variable.select_output_port; own_module: the wrapper is of this Variable.
select_output_port(vt, variable, own_module, module, outputport_name) ==
    IF ~own_module \/ variable.output_designated
    THEN [status |-> "ValueError", variable |-> variable]
    ELSE IF variable.output_module_id \notin ModuleIds(getPipeline(vt, vt.current))
    THEN [status |-> "KeyError", variable |-> variable]
    ELSE [status |-> "ok",
          variable |-> [variable EXCEPT
                           !.operations =
                               Append(@, AddConnection(module, outputport_name,
                                                       variable.output_module_id,
                                                       "InternalPipe")),
                           !.output_designated = TRUE]]

\* The modules a Variable object has buffered.
ModulesIn(o) == ModuleIds(objects[o].operations)

\* A package calls Variable().
NewVariable ==
    \E k \in 1..Len(ObjIds) :
        LET r == Variable(VT)
            o == ObjIds[k]
        IN
        /\ DOMAIN objects = {ObjIds[j] : j \in 1..(k - 1)}
        /\ Install(r.vt)
        /\ objects' = Put(objects, o, r.variable)
        /\ last' = [op |-> "Variable", obj |-> o, assert_ok |-> r.assert_ok]
        /\ UNCHANGED <<variable_operations, fo, returned, rs, variables>>

\* variable.add_module(module_type)
VariableAddModule ==
    \E o \in DOMAIN objects :
        /\ objects[o].var_version = 0
        /\ Cardinality(ModulesIn(o)) < Len(LoaderModules[o])
        /\ Install([VT EXCEPT !.nextId = nextId + 1])
        /\ objects' = [objects EXCEPT ![o] =
                          add_module(@, nextId, LoaderModules[o][Cardinality(ModulesIn(o)) + 1])]
        /\ last' = [op |-> "add_module", obj |-> o]
        /\ UNCHANGED <<variable_operations, fo, returned, rs, variables>>

\* module.connect_outputport_to('out', other_module, 'in')
ConnectOutputportTo ==
    \E o \in DOMAIN objects, p \in DOMAIN objects :
        \E module \in ModulesIn(o), other_module \in ModulesIn(p) :
            LET r == connect_outputport_to(objects[o], o = p, module, "out",
                                           other_module, "in") IN
            /\ objects[o].var_version = 0
            /\ module < other_module
            /\ AddConnection(module, "out", other_module, "in")
                   \notin Range(objects[o].operations)
            /\ objects' = [objects EXCEPT ![o] = r.variable]
            /\ last' = [op |-> "connect_outputport_to", obj |-> o, status |-> r.status]
            /\ UNCHANGED <<variable_operations, fo, returned, rs, variables,
                           versions, tags, current, nextId>>

\* variable.select_output_port(module, 'out')
SelectOutputPort ==
    \E o \in DOMAIN objects, p \in DOMAIN objects :
        \E module \in ModulesIn(p) :
            LET r == select_output_port(VT, objects[o], o = p, module, "out") IN
            /\ objects[o].var_version = 0
            /\ objects' = [objects EXCEPT ![o] = r.variable]
            /\ last' = [op |-> "select_output_port", obj |-> o, status |-> r.status,
                        unchanged |-> r.variable = objects[o],
                        designated_before |-> objects[o].output_designated]
            /\ UNCHANGED <<variable_operations, fo, returned, rs, variables,
                           versions, tags, current, nextId>>

\* The Manager inserts the Variable under a name: the name is set, then
\* variable.perform_operations() is called.
PerformOperations ==
    \E o \in DOMAIN objects, name \in VarNames \ DOMAIN variables :
        LET vt1 == perform_operations(VT, objects[o].root_version,
                                      objects[o].operations, name) IN
        /\ objects[o].var_version = 0
        /\ name = InsertedAs[o]
        /\ Install(vt1)
        /\ objects' = [objects EXCEPT ![o].var_version = vt1.current]
        /\ variables' = Put(variables, name, [version |-> vt1.current, type |-> "Float"])
        /\ last' = [op |-> "perform_operations", obj |-> o, name |-> name,
                    var_version |-> vt1.current]
        /\ UNCHANGED <<variable_operations, fo, returned, rs>>

NextLoader ==
    \/ NewVariable
    \/ VariableAddModule
    \/ ConnectOutputportTo
    \/ SelectOutputPort
    \/ PerformOperations
    \/ CreatePipeline

SpecLoader == Init /\ [][NextLoader]_vars

\* The connections of a materialized Variable's version that designate its output
\* port: those to the 'InternalPipe' port of the OutputPort module of 'dat-vars'.
Designations(o) ==
    LET ToRoot(c) == c.dst = objects[o].output_module_id /\ c.dport = "InternalPipe"
    IN SelectSeq(ConnectionsOf(versions[objects[o].var_version].ops), ToRoot)

Materialized == {o \in DOMAIN objects : objects[o].var_version # 0}

(***************************************************************************)
(* C12.  The version perform_operations commits for a Variable has exactly *)
(* one designated output port, so a Variable on which select_output_port   *)
(* was never called is not materialized; and a second select_output_port   *)
(* call is rejected and leaves the buffered edits as they were.            *)
(***************************************************************************)
C12_ExactlyOneOutputPort ==
    /\ \A o \in Materialized : Len(Designations(o)) = 1
    /\ (last.op = "select_output_port" /\ last.designated_before) =>
           last.status = "ValueError" /\ last.unchanged

(***************************************************************************)
(* C13.  Every materialized variable's version is a direct child of the    *)
(* one version tagged 'dat-vars' and is tagged 'dat-var-<name>'; the       *)
(* 'dat-vars' pipeline holds exactly one module, the OutputPort named      *)
(* 'value', and the assertion of _get_variables_root holds at every call.  *)
(***************************************************************************)
C13_VariablesUnderRoot ==
    /\ \A n \in DOMAIN variables :
          /\ has_tag_str(VT, TagVars)
          /\ versions[variables[n].version].parent = get_version_number(VT, TagVars)
          /\ has_tag_str(VT, TagVar(n))
          /\ get_version_number(VT, TagVar(n)) = variables[n].version
    /\ Cardinality({v \in 1..Len(versions) : versions[v].maker = "root"}) <= 1
    /\ has_tag_str(VT, TagVars) =>
          LET pipeline == getPipeline(VT, get_version_number(VT, TagVars)) IN
          /\ Len(ModulesOf(pipeline)) = 1
          /\ ModulesOf(pipeline)[1].type = "OutputPort"
          /\ get_function(pipeline, ModulesOf(pipeline)[1].id, "name") = "value"
    /\ last.op = "Variable" => last.assert_ok

\* Two variables materialized, the second one while the version of a pipeline,
\* committed just before, was the selected one.
C13_Witness ==
    /\ Cardinality(DOMAIN variables) = 2
    /\ \E n \in DOMAIN variables :
          /\ variables[n].version > 1
          /\ versions[variables[n].version - 1].maker = "pipeline"

(***************************************************************************)
(* C15.  select_output_port always finds the OutputPort module of          *)
(* 'dat-vars' in the pipeline it looks it up in, and every commit extends  *)
(* the base version it expects: the 'dat-vars' root for perform_operations *)
(* and version 0 for create_pipeline.                                      *)
(***************************************************************************)
C15_BaseVersionSelected ==
    /\ (last.op = "select_output_port" /\ last.status # "ValueError") =>
           last.status = "ok"
    /\ last.op = "perform_operations" =>
           versions[last.var_version].parent = objects[last.obj].root_version
    /\ last.op = "create_pipeline" => versions[last.pipeline_version].parent = BaseVersion

====
